---------------------------- MODULE Spec2Model ----------------------------
(***************************************************************************)
(* A model of package jsonparser (src/jsonparser/parser.go): Parse reads   *)
(* newline-delimited "go test -json" events from a reader and aggregates   *)
(* them into a Report of Packages and Tests; Report.Failures counts the    *)
(* failed tests of a report.                                               *)
(*                                                                         *)
(* One call of Parse is a state machine: the read loop takes one line per  *)
(* step (ReadLine), ends at end-of-stream (ReadEOF) or at a read error     *)
(* (ReadErr); the finalization loop attaches one test per step             *)
(* (FinalizeStep) and Return hands the report to the caller, who may then  *)
(* call Failures (CallFailures).                                           *)
(***************************************************************************)
EXTENDS Integers, Sequences, FiniteSets

\* ------------------------------------------------------------------ bounds

\* The longest stream read: after MaxLines lines the reader reports
\* end-of-stream or an error.
MaxLines == 3

\* The reports Failures is applied to in SpecF: at most MaxPkgs packages of
\* at most MaxTests tests each.
MaxPkgs == 2
MaxTests == 2

\* ------------------------------------------------------- program constants

\* const ( PASS Result = iota; FAIL; SKIP )
PASS == 0
FAIL == 1
SKIP == 2

\* time.Second, in time.Duration's unit (nanoseconds)
Second == 1000000000

\* time.Millisecond, the unit of the deprecated Time fields
Millisecond == 1000000

\* ------------------------------------------------------------------- input

\* One line of the stream, as text.  kind says how encoding/json takes it:
\*   "json"   a JSON object whose members have the types of LineOutput;
\*   "syntax" not valid JSON (garbage, a truncated object, a blank line);
\*   "type"   a valid JSON object whose Elapsed member is not a number.
\* The other fields are the members the text of the line spells out.
Line(kind, a, p, t, o, e) ==
    [kind |-> kind, Action |-> a, Package |-> p, Test |-> t, Output |-> o,
     Elapsed |-> e]

\* The lines a stream is made of.  Elapsed is in whole seconds: 0, 1 and 2
\* are float32 values and so are their products with float32(time.Second).
Lines ==
    { Line("json", "output", "p", "T", "x", 0),
      Line("json", "pass",   "p", "T", "",  1),
      Line("json", "fail",   "p", "T", "",  2),
      Line("json", "skip",   "p", "T", "",  0),
      Line("json", "pass",   "q", "T", "",  2),
      Line("json", "output", "q", "T", "w", 0),
      Line("json", "run",    "q", "U", "",  0),
      Line("json", "output", "q", "U", "y", 0),
      Line("json", "fail",   "q", "U", "",  1),
      Line("json", "pass",   "p", "",  "",  2),
      Line("json", "pass",   "p", "",  "",  1),
      Line("json", "output", "q", "",  "z", 0),
      Line("json", "pass",   "",  "",  "",  1),
      Line("syntax", "pass", "p", "T", "x", 1),
      Line("type",   "pass", "p", "T", "t", 0) }

\* The pkgName arguments Parse is called with: one that is also a package
\* of the stream, one that is not.
PkgNames == {"p", "main"}

\* ------------------------------------------------------------------- types

\* var lineoutput LineOutput: the zero value
ZeroLineOutput ==
    [Action |-> "", Package |-> "", Test |-> "", Output |-> "", Elapsed |-> 0]

\* json.Unmarshal(l, &lineoutput) into the zero value, its error dropped.
\* Invalid syntax is found before anything is stored, so lineoutput stays
\* zero; a member of the wrong type is skipped and the other members are
\* stored.
Unmarshal(l) ==
    CASE l.kind = "syntax" -> ZeroLineOutput
      [] l.kind = "type"   ->
            [Action |-> l.Action, Package |-> l.Package, Test |-> l.Test,
             Output |-> l.Output, Elapsed |-> ZeroLineOutput.Elapsed]
      [] OTHER             ->
            [Action |-> l.Action, Package |-> l.Package, Test |-> l.Test,
             Output |-> l.Output, Elapsed |-> l.Elapsed]

\* time.Duration(lineoutput.Elapsed * float32(time.Second))
ToDuration(elapsed) == elapsed * Second

\* NewPackage with the package name stored as the coverage string too.
NewPackageNameAsCoverage(name, bm, cov) ==
    [Name |-> name, Duration |-> 0, Tests |-> <<>>, Benchmarks |-> bm,
     CoveragePct |-> name, Time |-> 0]

\* &Package{Name: name, Duration: 0, Tests: make([]*Test, 0),
\*          Benchmarks: benchmarks, CoveragePct: coveragePct}; Time is left
\* at its zero value.
NewPackage(name, bm, cov) ==
    [Name |-> name, Duration |-> 0, Tests |-> <<>>, Benchmarks |-> bm,
     CoveragePct |-> cov, Time |-> 0]

\* &Test{Name: ev.Test, Package: ev.Package, Result: FAIL,
\*       Output: make([]string, 0)}; Duration, SubtestIndent and Time are
\* left at their zero values.
NewTest(ev) ==
    [Name |-> ev.Test, Package |-> ev.Package, Duration |-> 0,
     Result |-> FAIL, Output |-> <<>>, SubtestIndent |-> "", Time |-> 0]

\* ----------------------------------------------------------------- lookups

\* The loop of findTest and findPackage from index i down to 1: the index
\* of the first entry met whose Name is name, 0 (nil) when there is none.
RECURSIVE ScanDown(_, _, _)
ScanDown(s, name, i) ==
    IF i < 1 THEN 0
    ELSE IF s[i].Name = name THEN i
    ELSE ScanDown(s, name, i - 1)

\* findTest with the loop condition i > 0: the first entry is never looked at.
findTestSkipsFirst(ts, name) ==
    LET i == ScanDown(ts, name, Len(ts)) IN IF i = 1 THEN 0 ELSE i

\* findTest scanning from the front: the first entry of that name.
findTestFirstMatch(ts, name) ==
    LET m == {i \in 1..Len(ts) : ts[i].Name = name}
    IN  IF m = {} THEN 0 ELSE CHOOSE i \in m : \A k \in m : i <= k

findTest(ts, name) == ScanDown(ts, name, Len(ts))

\* findPackage with the loop condition i > 0.
findPackageSkipsFirst(packages, name) ==
    LET i == ScanDown(packages, name, Len(packages)) IN IF i = 1 THEN 0 ELSE i

findPackage(packages, name) == ScanDown(packages, name, Len(packages))

\* ------------------------------------------------------- the per-line step

\* PackageEvent that passes over events without a package name.
PackageEventIgnoresUnnamed(packages, ev, bm, cov) ==
    LET found == findPackage(packages, ev.Package)
        ps    == IF found = 0
                 THEN Append(packages, NewPackage(ev.Package, bm, cov))
                 ELSE packages
        i     == IF found = 0 THEN Len(ps) ELSE found
    IN  IF ev.Package = "" THEN packages
        ELSE IF ev.Action = "pass"
        THEN [ps EXCEPT ![i].Duration = ToDuration(ev.Elapsed)]
        ELSE ps

\* The package-scoped branch (lineoutput.Test == ""): find or create the
\* package, then set its Duration on "pass".
PackageEvent(packages, ev, bm, cov) ==
    LET found == findPackage(packages, ev.Package)
        ps    == IF found = 0
                 THEN Append(packages, NewPackage(ev.Package, bm, cov))
                 ELSE packages
        i     == IF found = 0 THEN Len(ps) ELSE found
    IN  IF ev.Action = "pass"
        THEN [ps EXCEPT ![i].Duration = ToDuration(ev.Elapsed)]
        ELSE ps

\* UpdateTest with a "skip" event recorded in the test's Result.
UpdateTestRecordsSkip(t, ev) ==
    LET t1 == IF ev.Action = "output"
              THEN [t EXCEPT !.Output = Append(@, ev.Output)]
              ELSE t
    IN  IF ev.Action = "pass" \/ ev.Action = "fail"
        THEN [t1 EXCEPT !.Result   = IF ev.Action = "pass" THEN PASS ELSE @,
                        !.Duration = ToDuration(ev.Elapsed)]
        ELSE IF ev.Action = "skip" THEN [t1 EXCEPT !.Result = SKIP]
        ELSE t1

\* UpdateTest that also moves the test to the package of the event.
UpdateTestTakesPackage(t, ev) ==
    LET t1 == IF ev.Action = "output"
              THEN [t EXCEPT !.Output = Append(@, ev.Output)]
              ELSE t
        t2 == [t1 EXCEPT !.Package = ev.Package]
    IN  IF ev.Action = "pass" \/ ev.Action = "fail"
        THEN [t2 EXCEPT !.Result   = IF ev.Action = "pass" THEN PASS ELSE @,
                        !.Duration = ToDuration(ev.Elapsed)]
        ELSE t2

\* UpdateTest that appends the Output of an event of any action.
UpdateTestAppendsAnyOutput(t, ev) ==
    LET t1 == IF ev.Output # ""
              THEN [t EXCEPT !.Output = Append(@, ev.Output)]
              ELSE t
    IN  IF ev.Action = "pass" \/ ev.Action = "fail"
        THEN [t1 EXCEPT !.Result   = IF ev.Action = "pass" THEN PASS ELSE @,
                        !.Duration = ToDuration(ev.Elapsed)]
        ELSE t1

\* UpdateTest that adds the event's elapsed time to the test's Duration.
UpdateTestSumsDuration(t, ev) ==
    LET t1 == IF ev.Action = "output"
              THEN [t EXCEPT !.Output = Append(@, ev.Output)]
              ELSE t
    IN  IF ev.Action = "pass" \/ ev.Action = "fail"
        THEN [t1 EXCEPT !.Result   = IF ev.Action = "pass" THEN PASS ELSE @,
                        !.Duration = @ + ToDuration(ev.Elapsed)]
        ELSE t1

\* What a test-scoped event of action ev.Action does to the test t it was
\* looked up or created for.
UpdateTest(t, ev) ==
    LET t1 == IF ev.Action = "output"
              THEN [t EXCEPT !.Output = Append(@, ev.Output)]
              ELSE t
    IN  IF ev.Action = "pass" \/ ev.Action = "fail"
        THEN [t1 EXCEPT !.Result   = IF ev.Action = "pass" THEN PASS ELSE @,
                        !.Duration = ToDuration(ev.Elapsed)]
        ELSE t1

\* The test-scoped branch: find or create the test, then update it.
TestEvent(ts, ev) ==
    LET found == findTest(ts, ev.Test)
        ts1   == IF found = 0 THEN Append(ts, NewTest(ev)) ELSE ts
        i     == IF found = 0 THEN Len(ts1) ELSE found
    IN  [ts1 EXCEPT ![i] = UpdateTest(@, ev)]

\* AttachTest that also adds the test's Duration to its package's.
AttachTestSummingDuration(packages, t, bm, cov) ==
    LET found == findPackage(packages, t.Package)
        ps    == IF found = 0
                 THEN Append(packages, NewPackage(t.Package, bm, cov))
                 ELSE packages
        i     == IF found = 0 THEN Len(ps) ELSE found
    IN  [ps EXCEPT ![i].Tests = Append(@, t), ![i].Duration = @ + t.Duration]

\* AttachTest that puts the test in front of the package's Tests.
AttachTestInFront(packages, t, bm, cov) ==
    LET found == findPackage(packages, t.Package)
        ps    == IF found = 0
                 THEN Append(packages, NewPackage(t.Package, bm, cov))
                 ELSE packages
        i     == IF found = 0 THEN Len(ps) ELSE found
    IN  [ps EXCEPT ![i].Tests = <<t>> \o @]

\* One pass of the finalization loop for test t: find or create its
\* package and append the test to the package's Tests.
AttachTest(packages, t, bm, cov) ==
    LET found == findPackage(packages, t.Package)
        ps    == IF found = 0
                 THEN Append(packages, NewPackage(t.Package, bm, cov))
                 ELSE packages
        i     == IF found = 0 THEN Len(ps) ELSE found
    IN  [ps EXCEPT ![i].Tests = Append(@, t)]

\* The body of the read loop after a successful read of line l, on the
\* loop's state s = [Packages, tests]: decode the line and take the
\* package-scoped or the test-scoped branch.
LineStep(s, l, bm, cov) ==
    LET lineoutput == Unmarshal(l)
    IN  IF lineoutput.Test = ""
        THEN [s EXCEPT !.Packages = PackageEvent(@, lineoutput, bm, cov)]
        ELSE [s EXCEPT !.tests = TestEvent(@, lineoutput)]

\* The read loop over the first n lines of stream ls, from the empty state.
RECURSIVE ReadLoop(_, _, _, _)
ReadLoop(ls, n, bm, cov) ==
    IF n = 0 THEN [Packages |-> <<>>, tests |-> <<>>]
    ELSE LineStep(ReadLoop(ls, n - 1, bm, cov), ls[n], bm, cov)

\* The finalization loop over ts from index i on.
RECURSIVE Finalize(_, _, _, _, _)
Finalize(packages, ts, i, bm, cov) ==
    IF i > Len(ts) THEN packages
    ELSE Finalize(AttachTest(packages, ts[i], bm, cov), ts, i + 1, bm, cov)

\* The report Parse returns for a stream ls that ends with end-of-stream
\* (pkgName is not read by Parse).
Parse(ls) ==
    LET s == ReadLoop(ls, Len(ls), <<>>, "")
    IN  [Packages |-> Finalize(s.Packages, s.tests, 1, <<>>, "")]

\* ----------------------------------------------------------------- Failures

\* The inner loop of Failures over p.Tests from index j on.
RECURSIVE CountTests(_, _)
CountTests(ts, j) ==
    IF j > Len(ts) THEN 0
    ELSE (IF ts[j].Result = FAIL THEN 1 ELSE 0) + CountTests(ts, j + 1)

\* The outer loop of Failures over r.Packages from index i on.
RECURSIVE CountPackages(_, _)
CountPackages(packages, i) ==
    IF i > Len(packages) THEN 0
    ELSE CountTests(packages[i].Tests, 1) + CountPackages(packages, i + 1)

\* Failures counting every Test that did not pass.
FailuresCountsNotPass(r) ==
    Cardinality(UNION { {<<i, j>> : j \in
                            {k \in 1..Len(r.Packages[i].Tests) :
                                r.Packages[i].Tests[k].Result # PASS}} :
                        i \in 1..Len(r.Packages) })

Failures(r) == CountPackages(r.Packages, 1)

\* ------------------------------------------------------------------- state

VARIABLES
    pkgName,      \* Parse's argument pkgName
    lines,        \* the lines reader.ReadLine has returned so far
    report,       \* report: [Packages |-> the discovered packages]
    tests,        \* tests: the discovered tests
    benchmarks,   \* benchmarks: the shared benchmark list
    coveragePct,  \* coveragePct: the shared coverage string
    stderr,       \* what has been written to os.Stderr
    pc,           \* "read", "finalize" or "done"
    fi,           \* the finalization loop's position in tests
    err,          \* err of the last reader.ReadLine: "nil", "EOF", "read error"
    ret,          \* Parse's first result: "none" yet, "report" or "nil"
    retErr,       \* Parse's second result: "nil" or the error returned
    called,       \* whether the caller has called Failures
    failures      \* what Failures returned

vars == <<pkgName, lines, report, tests, benchmarks, coveragePct, stderr,
          pc, fi, err, ret, retErr, called, failures>>

\* The state at the top of the read loop, for every pkgName.
Init ==
    /\ pkgName \in PkgNames
    /\ lines = <<>>
    /\ report = [Packages |-> <<>>]
    /\ tests = <<>>
    /\ benchmarks = <<>>
    /\ coveragePct = ""
    /\ stderr = <<>>
    /\ pc = "read"
    /\ fi = 1
    /\ err = "nil"
    /\ ret = "none"
    /\ retErr = "nil"
    /\ called = FALSE
    /\ failures = 0

\* reader.ReadLine returns line l with a nil error: decode it, mirror its
\* Output to stderr and apply it to the packages or to the tests.
ReadLine ==
    /\ pc = "read"
    /\ Len(lines) < MaxLines
    /\ \E l \in Lines :
         LET s == LineStep([Packages |-> report.Packages, tests |-> tests],
                           l, benchmarks, coveragePct)
         IN  /\ lines' = Append(lines, l)
             /\ stderr' = Append(stderr, Unmarshal(l).Output)
             /\ report' = [report EXCEPT !.Packages = s.Packages]
             /\ tests' = s.tests
    /\ err' = "nil"
    /\ UNCHANGED <<pkgName, benchmarks, coveragePct, pc, fi, ret, retErr,
                   called, failures>>

\* reader.ReadLine returns io.EOF: leave the read loop.
ReadEOF ==
    /\ pc = "read"
    /\ err' = "EOF"
    /\ pc' = "finalize"
    /\ fi' = 1
    /\ UNCHANGED <<pkgName, lines, report, tests, benchmarks, coveragePct,
                   stderr, ret, retErr, called, failures>>

\* ReadErr that returns the report built so far beside the error.
ReadErrPartialReport ==
    /\ pc = "read"
    /\ err' = "read error"
    /\ pc' = "done"
    /\ ret' = "report"
    /\ retErr' = err'
    /\ UNCHANGED <<pkgName, lines, report, tests, benchmarks, coveragePct,
                   stderr, fi, called, failures>>

\* reader.ReadLine returns another error: return nil, err.
ReadErr ==
    /\ pc = "read"
    /\ err' = "read error"
    /\ pc' = "done"
    /\ ret' = "nil"
    /\ retErr' = err'
    /\ UNCHANGED <<pkgName, lines, report, tests, benchmarks, coveragePct,
                   stderr, fi, called, failures>>

\* One pass of "for _, t := range tests".
FinalizeStep ==
    /\ pc = "finalize"
    /\ fi <= Len(tests)
    /\ report' = [report EXCEPT !.Packages =
                    AttachTest(@, tests[fi], benchmarks, coveragePct)]
    /\ fi' = fi + 1
    /\ UNCHANGED <<pkgName, lines, tests, benchmarks, coveragePct, stderr,
                   pc, err, ret, retErr, called, failures>>

\* return report, nil
Return ==
    /\ pc = "finalize"
    /\ fi > Len(tests)
    /\ pc' = "done"
    /\ ret' = "report"
    /\ retErr' = "nil"
    /\ UNCHANGED <<pkgName, lines, report, tests, benchmarks, coveragePct,
                   stderr, fi, err, called, failures>>

\* The caller calls report.Failures() on the report it was given.
CallFailures ==
    /\ pc = "done"
    /\ ret = "report"
    /\ ~called
    /\ called' = TRUE
    /\ failures' = Failures(report)
    /\ UNCHANGED <<pkgName, lines, report, tests, benchmarks, coveragePct,
                   stderr, pc, fi, err, ret, retErr>>

Next ==
    \/ ReadLine
    \/ ReadEOF
    \/ ReadErr
    \/ FinalizeStep
    \/ Return
    \/ CallFailures

Spec == Init /\ [][Next]_vars

\* Parse runs on: once the read loop has ended, the finalization loop and
\* the return are not delayed forever.  (Whether the reader delivers a next
\* line, and whether the caller calls Failures, is not up to Parse.)
FairSpec == Spec /\ WF_vars(FinalizeStep) /\ WF_vars(Return)

\* ------------------------------------------ Failures on arbitrary reports

\* The tests and packages of the reports Failures is applied to: every
\* Result of the enumeration occurs, in every order.
ReportTest(r) ==
    [Name |-> "t", Package |-> "p", Duration |-> 0, Result |-> r,
     Output |-> <<>>, SubtestIndent |-> "", Time |-> 0]

ReportTests ==
    UNION { [1..n -> {ReportTest(r) : r \in {PASS, FAIL, SKIP}}] :
            n \in 0..MaxTests }

ReportPackages ==
    UNION { [1..n -> {[NewPackage("p", <<>>, "") EXCEPT !.Tests = ts] :
                      ts \in ReportTests}] : n \in 0..MaxPkgs }

\* A caller holding any report of at most MaxPkgs packages.
InitF ==
    /\ pkgName \in {"p"}
    /\ lines = <<>>
    /\ report \in {[Packages |-> ps] : ps \in ReportPackages}
    /\ tests = <<>>
    /\ benchmarks = <<>>
    /\ coveragePct = ""
    /\ stderr = <<>>
    /\ pc = "done"
    /\ fi = 1
    /\ err = "EOF"
    /\ ret = "report"
    /\ retErr = "nil"
    /\ called = FALSE
    /\ failures = 0

NextF == CallFailures

SpecF == InitF /\ [][NextF]_vars

\* ------------------------------- the lookups on arbitrary lists (SpecL)

\* The longest list of tests, and of packages, the lookups are applied to.
MaxList == 3

\* Lists of tests and of packages in which a name may occur several times.
TestLists ==
    UNION { [1..n -> {NewTest([Test |-> nm, Package |-> "p"]) :
                      nm \in {"T", "U"}}] : n \in 0..MaxList }

PackageLists ==
    UNION { [1..n -> {NewPackage(nm, <<>>, "") : nm \in {"p", "q"}}] :
            n \in 0..MaxList }

\* The read loop entered with any such lists as its tests and packages.
InitL ==
    /\ pkgName \in {"p"}
    /\ lines = <<>>
    /\ report \in {[Packages |-> ps] : ps \in PackageLists}
    /\ tests \in TestLists
    /\ benchmarks = <<>>
    /\ coveragePct = ""
    /\ stderr = <<>>
    /\ pc = "read"
    /\ fi = 1
    /\ err = "nil"
    /\ ret = "none"
    /\ retErr = "nil"
    /\ called = FALSE
    /\ failures = 0

\* One line is read and applied to the lists.
NextL == lines = <<>> /\ ReadLine

SpecL == InitL /\ [][NextL]_vars

\* ---------------------------------------------------------------- properties

\* The event the i-th line read decoded to.
Ev(i) == Unmarshal(lines[i])

\* The test names carried by test-scoped events, and the positions of the
\* test-scoped events of name n whose action is "pass" or "fail".
TestNamesSeen == {Ev(i).Test : i \in 1..Len(lines)} \ {""}

Terminals(n) ==
    {i \in 1..Len(lines) : Ev(i).Test = n /\ Ev(i).Action \in {"pass", "fail"}}

\* The (package, test) positions of the report's tests, and the test at one.
Slots ==
    UNION { {<<i, j>> : j \in 1..Len(report.Packages[i].Tests)} :
            i \in 1..Len(report.Packages) }

TestAt(sl) == report.Packages[sl[1]].Tests[sl[2]]

\* Parse has returned a report.
Returned == pc = "done" /\ ret = "report"

\* The largest member of a non-empty set of integers.
MaxOf(S) == CHOOSE i \in S : \A k \in S : k <= i

\* C1: when Parse returns a report, every test name carried by a test-scoped
\* event is the name of exactly one Test of the report (one slot of one
\* package), and every Test of the report has a name some event carried.
C1_EachTestExactlyOnce ==
    Returned =>
        /\ \A n \in TestNamesSeen :
              Cardinality({sl \in Slots : TestAt(sl).Name = n}) = 1
        /\ \A sl \in Slots : TestAt(sl).Name \in TestNamesSeen

\* C1's case: a report for a stream that names test T under two packages and
\* a second test U.
C1_Witness ==
    /\ Returned
    /\ TestNamesSeen = {"T", "U"}
    /\ \E i, k \in 1..Len(lines) :
          /\ Ev(i).Test = "T" /\ Ev(k).Test = "T"
          /\ Ev(i).Package # Ev(k).Package
    /\ Cardinality(Slots) = 2

\* C2: when Parse returns a report, a Test's Result is PASS exactly when the
\* last "pass" or "fail" event of its name is a "pass"; with no such event,
\* or a last "fail", the Result is FAIL.
C2_ResultIsLastTerminal ==
    Returned =>
        \A sl \in Slots :
            LET t == TestAt(sl)
                last == Terminals(t.Name)
                passed == last # {} /\ Ev(MaxOf(last)).Action = "pass"
            IN  /\ t.Result = PASS <=> passed
                /\ ~passed => t.Result = FAIL

\* C3: in every state, a Package whose Duration is not zero is named by a
\* package-scoped "pass" event of the stream.
C3_PackageDurationOnlyFromPass ==
    \A i \in 1..Len(report.Packages) :
        report.Packages[i].Duration # 0 =>
            \E k \in 1..Len(lines) :
                /\ Ev(k).Test = ""
                /\ Ev(k).Action = "pass"
                /\ Ev(k).Package = report.Packages[i].Name

\* C3's case: a returned report with a package of Duration zero that owns a
\* test of non-zero Duration, beside a package whose Duration was set.
C3_Witness ==
    /\ Returned
    /\ \E sl \in Slots :
          /\ TestAt(sl).Duration # 0
          /\ report.Packages[sl[1]].Duration = 0
    /\ \E i \in 1..Len(report.Packages) : report.Packages[i].Duration # 0

\* C4: a call of Failures returns the number of Tests of the report, over
\* all its Packages, whose Result is FAIL (0 for a report without packages)
\* and leaves the report as it was.
C4_FailuresCountsFail ==
    [][ (~called /\ called') =>
            /\ failures' = Cardinality({sl \in Slots : TestAt(sl).Result = FAIL})
            /\ (Len(report.Packages) = 0 => failures' = 0)
            /\ report' = report ]_vars

\* C4's case: Failures has returned 2 for a report of two packages that
\* holds tests of all three Results.
C4_Witness ==
    /\ called
    /\ failures = 2
    /\ Len(report.Packages) = 2
    /\ {TestAt(sl).Result : sl \in Slots} = {PASS, FAIL, SKIP}

\* C5: a read error other than end-of-stream ends Parse at once with a nil
\* report and that error; after end-of-stream Parse terminates, and returns
\* a report with a nil error.
C5_ReadErrorOrReport ==
    /\ [](err = "read error" => pc = "done" /\ ret = "nil" /\ retErr = err)
    /\ [](err = "EOF" /\ pc = "done" => ret = "report" /\ retErr = "nil")
    /\ (err = "EOF") ~> (pc = "done" /\ ret = "report" /\ retErr = "nil")

\* C5's case: the read fails after two lines that had put a package and a
\* test into the working state, and Parse has returned nil and the error.
C5_Witness ==
    /\ err = "read error"
    /\ pc = "done"
    /\ ret = "nil"
    /\ Len(lines) = 2
    /\ Len(report.Packages) = 1
    /\ Len(tests) = 1

\* The lines of ls that decode without error, in order: ls without its
\* undecodable lines.
WellFormed(ls) == SelectSeq(ls, LAMBDA l : l.kind = "json")

\* Report r holds every package and every test of report b with the same
\* name, duration, result, output and owning package.
Preserves(r, b) ==
    \A i \in 1..Len(b.Packages) :
        \E k \in 1..Len(r.Packages) :
            /\ r.Packages[k].Name = b.Packages[i].Name
            /\ r.Packages[k].Duration = b.Packages[i].Duration
            /\ \A j \in 1..Len(b.Packages[i].Tests) :
                  \E m \in 1..Len(r.Packages[k].Tests) :
                      LET t == r.Packages[k].Tests[m]
                          u == b.Packages[i].Tests[j]
                      IN  /\ t.Name = u.Name
                          /\ t.Package = u.Package
                          /\ t.Result = u.Result
                          /\ t.Duration = u.Duration
                          /\ t.Output = u.Output

\* C6: the report returned for a stream holds every package and test of the
\* report for the same stream without its undecodable lines, unchanged, and
\* comes with a nil error.
C6_MalformedLinesChangeNothing ==
    Returned => retErr = "nil" /\ Preserves(report, Parse(WellFormed(lines)))

\* C7: in the returned report, a package that no package-scoped event
\* names, known only as the Package of test-scoped events, carries the name
\* pkgName.
C7_PkgNameLabelsUnreportedPackage ==
    Returned =>
        \A sl \in Slots :
            (~ \E k \in 1..Len(lines) :
                  Ev(k).Test = "" /\ Ev(k).Package = TestAt(sl).Package)
            => report.Packages[sl[1]].Name = pkgName

\* Duration d in whole milliseconds.
Milliseconds(d) == d \div Millisecond

\* C8: in every state, every Package and every Test, discovered or attached
\* to a package, has Time equal to its Duration in whole milliseconds.
C8_TimeMirrorsDuration ==
    /\ \A i \in 1..Len(report.Packages) :
          report.Packages[i].Time = Milliseconds(report.Packages[i].Duration)
    /\ \A k \in 1..Len(tests) : tests[k].Time = Milliseconds(tests[k].Duration)
    /\ \A sl \in Slots : TestAt(sl).Time = Milliseconds(TestAt(sl).Duration)

\* The lines of ls other than test-scoped "skip" events, in order.
NoSkip(ls) ==
    SelectSeq(ls, LAMBDA l :
        ~(Unmarshal(l).Test # "" /\ Unmarshal(l).Action = "skip"))

\* Test t has the Result and Duration the stream gives its name once the
\* test-scoped "skip" events are left out: those of the test of that name
\* then discovered, or FAIL and zero when there is none.
SkipBlind(t) ==
    LET b == ReadLoop(NoSkip(lines), Len(NoSkip(lines)), <<>>, "").tests
        same == {j \in 1..Len(b) : b[j].Name = t.Name}
    IN  /\ \A j \in same :
              t.Result = b[j].Result /\ t.Duration = b[j].Duration
        /\ same = {} => t.Result = FAIL /\ t.Duration = 0

\* C9: in every state, no test, discovered or attached to a package, has
\* Result SKIP; its Result and Duration are what they would be without the
\* "skip" events of the stream; a test without "pass" or "fail" event has
\* Result FAIL and Duration zero.
C9_SkipChangesNothing ==
    \A t \in {tests[k] : k \in 1..Len(tests)} \cup {TestAt(sl) : sl \in Slots} :
        /\ t.Result # SKIP
        /\ SkipBlind(t)
        /\ Terminals(t.Name) = {} => t.Result = FAIL /\ t.Duration = 0

\* C9's case: the returned report holds a test with a "skip" event and no
\* "pass" or "fail" event.
C9_Witness ==
    /\ Returned
    /\ \E sl \in Slots, k \in 1..Len(lines) :
          /\ Ev(k).Test = TestAt(sl).Name
          /\ Ev(k).Action = "skip"
          /\ Terminals(TestAt(sl).Name) = {}
          /\ TestAt(sl).Result = FAIL
          /\ TestAt(sl).Duration = 0

\* The names of the entries of s are pairwise different.
UniqueNames(s) ==
    \A i, k \in 1..Len(s) : s[i].Name = s[k].Name => i = k

\* C10: in every state of Parse, after each line and after each pass of the
\* finalization loop, no two packages of report.Packages and no two
\* discovered tests share a name.
C10_NamesUnique ==
    UniqueNames(report.Packages) /\ UniqueNames(tests)

\* C10's case: pkgName is the name of a package of the stream, that package
\* is named by a package-scoped event and by a test-scoped event, and the
\* returned report holds a second package made by the finalization loop.
C10_Witness ==
    /\ Returned
    /\ \E i, k \in 1..Len(lines) :
          /\ Ev(i).Test = "" /\ Ev(i).Package = pkgName
          /\ Ev(k).Test # "" /\ Ev(k).Package = pkgName
    /\ Len(report.Packages) = 2
    /\ Len(tests) = 2

\* The positions of the test-scoped events of test name n, the first of
\* them, and the Output fields of those of action "output", in stream order.
EventsOf(n) == {i \in 1..Len(lines) : Ev(i).Test = n}

MinOf(S) == CHOOSE i \in S : \A k \in S : i <= k

FirstOf(n) == MinOf(EventsOf(n))

OutputsOf(n) ==
    LET sel == SelectSeq(lines, LAMBDA l :
                   Unmarshal(l).Test = n /\ Unmarshal(l).Action = "output")
    IN  [i \in 1..Len(sel) |-> Unmarshal(sel[i]).Output]

\* C11: in every state, each test name seen has one discovered Test; its
\* Package is the package of the first event of that name, and its Output,
\* Result and Duration come from the events of that name of every package.
\* In the returned report that Test is attached to the Package of that name
\* and to no other.
C11_TestIdentifiedByNameOnly ==
    \A n \in TestNamesSeen :
        /\ Cardinality({k \in 1..Len(tests) : tests[k].Name = n}) = 1
        /\ \A k \in 1..Len(tests) :
              tests[k].Name = n =>
                  /\ tests[k].Package = Ev(FirstOf(n)).Package
                  /\ tests[k].Output = OutputsOf(n)
                  /\ tests[k].Result = PASS <=>
                        \E i \in EventsOf(n) : Ev(i).Action = "pass"
                  /\ tests[k].Duration =
                        IF Terminals(n) = {} THEN 0
                        ELSE Ev(MaxOf(Terminals(n))).Elapsed * Second
        /\ Returned =>
              \A sl \in Slots :
                  TestAt(sl).Name = n =>
                      /\ report.Packages[sl[1]].Name = Ev(FirstOf(n)).Package
                      /\ TestAt(sl) \in {tests[k] : k \in 1..Len(tests)}

\* C11's case: test T is first named under package p, then gets an output
\* and a "pass" under package q; the returned report has T, passed, with
\* that output, under p, and no package q.
C11_Witness ==
    /\ Returned
    /\ EventsOf("T") # {}
    /\ Ev(FirstOf("T")).Package = "p"
    /\ \E i, k \in EventsOf("T") :
          /\ Ev(i).Package = "q" /\ Ev(i).Action = "output"
          /\ Ev(k).Package = "q" /\ Ev(k).Action = "pass"
    /\ \E sl \in Slots :
          /\ TestAt(sl).Name = "T"
          /\ TestAt(sl).Result = PASS
          /\ TestAt(sl).Output = <<"w">>
          /\ report.Packages[sl[1]].Name = "p"
    /\ \A i \in 1..Len(report.Packages) : report.Packages[i].Name # "q"

\* C12: in the returned report, every package name carried by an event of
\* the stream, package-scoped or test-scoped, is the name of a Package.
C12_EveryPackageNameReported ==
    Returned =>
        \A i \in 1..Len(lines) :
            \E k \in 1..Len(report.Packages) :
                report.Packages[k].Name = Ev(i).Package

\* C13: in every state, the Output of every test, discovered or attached to
\* a package, is the sequence of the Output fields of the "output" events of
\* its name, in stream order; so events of other actions and package-scoped
\* events add nothing to any test's Output.
C13_OutputIsOutputEventsInOrder ==
    \A t \in {tests[k] : k \in 1..Len(tests)} \cup {TestAt(sl) : sl \in Slots} :
        t.Output = OutputsOf(t.Name)

\* C13's case: the returned report holds a test with two different output
\* fragments in stream order, for a stream that also has an event that is
\* not a test's "output" event and carries an Output.
C13_Witness ==
    /\ Returned
    /\ \E sl \in Slots : TestAt(sl).Output = <<"w", "x">>
    /\ \E i \in 1..Len(lines) :
          /\ Ev(i).Output # ""
          /\ Ev(i).Test = "" \/ Ev(i).Action # "output"

\* The positions of the package-scoped events that name package a, and the
\* position of the first event of the first discovered test of package a.
PkgScoped(a) == {i \in 1..Len(lines) : Ev(i).Test = "" /\ Ev(i).Package = a}

FirstTestOf(a) ==
    MinOf({FirstOf(tests[k].Name) : k \in {m \in 1..Len(tests) :
                                              tests[m].Package = a}})

\* Package a comes before package b in the order of report.Packages: the
\* packages of package-scoped events by their first such event, then the
\* others by the discovery of their first test.
PackageBefore(a, b) ==
    IF PkgScoped(a) # {}
    THEN PkgScoped(b) # {} => MinOf(PkgScoped(a)) < MinOf(PkgScoped(b))
    ELSE PkgScoped(b) = {} /\ FirstTestOf(a) < FirstTestOf(b)

\* C14: in the returned report, the Tests of each Package are in the order
\* in which their names first occurred in the stream, and report.Packages
\* is in the order PackageBefore.
C14_ReportOrder ==
    Returned =>
        /\ \A i \in 1..Len(report.Packages) :
              \A j, m \in 1..Len(report.Packages[i].Tests) :
                  j < m => FirstOf(report.Packages[i].Tests[j].Name)
                             < FirstOf(report.Packages[i].Tests[m].Name)
        /\ \A i, k \in 1..Len(report.Packages) :
              i < k => PackageBefore(report.Packages[i].Name,
                                     report.Packages[k].Name)

\* C14's case: a returned report of three packages, the first from a
\* package-scoped event that came last in the stream, the other two made at
\* finalization.
C14_Witness ==
    /\ Returned
    /\ Len(report.Packages) = 3
    /\ PkgScoped(report.Packages[1].Name) = {3}
    /\ PkgScoped(report.Packages[2].Name) = {}
    /\ PkgScoped(report.Packages[3].Name) = {}

\* The greatest index of s whose entry is named n, 0 when there is none.
GreatestMatch(s, n) ==
    LET m == {i \in 1..Len(s) : s[i].Name = n}
    IN  IF m = {} THEN 0 ELSE MaxOf(m)

\* C15: for every list, with or without repeated names, and every name,
\* findTest and findPackage return the greatest index whose entry has that
\* name, nil (0) when none has; and an "output" event for a name the test
\* list holds appends its Output to the last entry of that name and leaves
\* every other entry as it was.
C15_MostRecentMatch ==
    /\ [](\A n \in {"", "T", "U", "p", "q"} :
            /\ findTest(tests, n) = GreatestMatch(tests, n)
            /\ findPackage(report.Packages, n)
                 = GreatestMatch(report.Packages, n))
    /\ [][ (lines = <<>> /\ lines' # <<>>) =>
             LET ev == Unmarshal(lines'[1])
                 g  == GreatestMatch(tests, ev.Test)
             IN  (ev.Test # "" /\ ev.Action = "output" /\ g # 0) =>
                    tests' = [tests EXCEPT ![g].Output = Append(@, ev.Output)]
         ]_vars

\* C15's case: the test list holds two entries named T, an "output" event
\* for T has been applied, and its Output is on the second entry only.
C15_Witness ==
    /\ Len(lines) = 1
    /\ Ev(1).Test = "T" /\ Ev(1).Action = "output"
    /\ Len(tests) = 3
    /\ tests[1].Name = "T" /\ tests[1].Output = <<>>
    /\ tests[2].Name = "T" /\ tests[2].Output = <<Ev(1).Output>>
    /\ tests[3].Name = "U" /\ tests[3].Output = <<>>

\* The Elapsed value, in Duration units, of the last event among those at
\* the positions S; zero when S is empty.
LastElapsed(S) == IF S = {} THEN 0 ELSE Ev(MaxOf(S)).Elapsed * Second

\* C16: in every state, the Duration of a Package is the Elapsed value of
\* the last package-scoped "pass" event of its name, and the Duration of a
\* Test, discovered or attached, is the Elapsed value of the last "pass" or
\* "fail" event of its name, whatever earlier events carried.
C16_DurationIsLastWriter ==
    /\ \A i \in 1..Len(report.Packages) :
          report.Packages[i].Duration =
              LastElapsed({k \in PkgScoped(report.Packages[i].Name) :
                              Ev(k).Action = "pass"})
    /\ \A t \in {tests[k] : k \in 1..Len(tests)} \cup {TestAt(sl) : sl \in Slots} :
          t.Duration = LastElapsed(Terminals(t.Name))

\* C16's case: the returned report holds a test whose "pass" event with one
\* Elapsed value was followed by a "fail" event with another, and a package
\* with a "pass" event of its own.
C16_Witness ==
    /\ Returned
    /\ \E sl \in Slots, i, k \in 1..Len(lines) :
          /\ i < k
          /\ Terminals(TestAt(sl).Name) = {i, k}
          /\ Ev(i).Action = "pass" /\ Ev(k).Action = "fail"
          /\ Ev(i).Elapsed # 0 /\ Ev(i).Elapsed # Ev(k).Elapsed
          /\ TestAt(sl).Duration = Ev(k).Elapsed * Second
          /\ report.Packages[sl[1]].Duration # 0

\* The positions of the lines that decoded to the zero-valued event, and
\* the indices of the packages named "".
ZeroLines == {i \in 1..Len(lines) : Ev(i) = ZeroLineOutput}

Unnamed == {k \in 1..Len(report.Packages) : report.Packages[k].Name = ""}

\* C17: a line that decodes to the zero-valued event leaves the discovered
\* tests and every package already discovered as they were, and adds an
\* empty package named "" when there is none; a returned report for a
\* stream with such a line holds exactly one Package named "", of Duration
\* zero when no other event names package "".
C17_ZeroEventIsUnnamedPackageEvent ==
    /\ []((Returned /\ ZeroLines # {}) =>
            /\ Cardinality(Unnamed) = 1
            /\ (\A i \in 1..Len(lines) : Ev(i).Package = "" => i \in ZeroLines)
                  => \A k \in Unnamed :
                        /\ report.Packages[k].Duration = 0
                        /\ report.Packages[k].Tests = <<>>)
    /\ [][ (Len(lines') = Len(lines) + 1
            /\ Unmarshal(lines'[Len(lines')]) = ZeroLineOutput) =>
             /\ tests' = tests
             /\ report'.Packages =
                  IF Unnamed # {} THEN report.Packages
                  ELSE Append(report.Packages, NewPackage("", <<>>, ""))
         ]_vars

\* C17's case: two lines of the stream decoded to the zero-valued event, a
\* test was discovered between them, and the returned report holds its
\* package and one package named "" of Duration zero.
C17_Witness ==
    /\ Returned
    /\ ZeroLines = {1, 3}
    /\ Len(tests) = 1
    /\ Len(report.Packages) = 2
    /\ report.Packages[1].Name = ""
    /\ report.Packages[1].Duration = 0
    /\ Len(report.Packages[2].Tests) = 1

\* C18: in every state, the shared coverage string and benchmark list are
\* empty, and so are the CoveragePct and the Benchmarks of every Package.
C18_NoCoverageNoBenchmarks ==
    /\ coveragePct = ""
    /\ benchmarks = <<>>
    /\ \A i \in 1..Len(report.Packages) :
          /\ report.Packages[i].CoveragePct = ""
          /\ report.Packages[i].Benchmarks = <<>>

\* C18's case: a returned report with a package made in the read loop and
\* a package made by the finalization loop.
C18_Witness ==
    /\ Returned
    /\ Len(report.Packages) = 2
    /\ PkgScoped(report.Packages[1].Name) # {}
    /\ PkgScoped(report.Packages[2].Name) = {}

\* C19: in every state, stderr holds one write per line read, in stream
\* order: the Output the line spells out, or the empty string for a line
\* that fails to decode; and no step after the read loop writes to it.
C19_StderrMirrorsOutputs ==
    /\ [](/\ Len(stderr) = Len(lines)
          /\ \A i \in 1..Len(lines) :
                stderr[i] = IF lines[i].kind = "json" THEN lines[i].Output
                            ELSE "")
    /\ [][pc # "read" => stderr' = stderr]_vars

=============================================================================
